---- MODULE Spec2Model ----
(***************************************************************************)
(* Trait-bound inference of 8BitMate/reflect (src/trait_inference.rs):     *)
(* the equality-set store, the most-concrete resolver, the relevance       *)
(* filter and the per-implementation pass that drives them.                *)
(***************************************************************************)
EXTENDS Integers, Sequences, FiniteSets, TLC

VARIABLES
    inputs,                 \* what the implementation and its invocations mention
    params,                 \* generics.params of the implementation
    set_map,                \* TypeEqualitySets.set_map
    sets,                   \* TypeEqualitySets.sets (index 1 is set ref 0)
    constraints,            \* the ConstraintSet being accumulated
    err,                    \* "none", or the panic that unwound the pass
    pc,                     \* "start", "collect", "filter", "done", "aborted"
    calls,                  \* insert_as_equal_to calls made by the pass
    last,                   \* the last operation and its operands
    unified,                \* history: operand pairs of the calls that
                            \* reached the set lookup
    found_both,             \* history: some call found its two operands in
                            \* two different sets
    probe,                  \* the result of the last merge or judgement
    most_concrete_type_map, \* the memo of the resolver
    relevant,               \* set refs returned by generic_param_set_refs
    order,                  \* the iteration order of every equality set
    pending,                \* constraints the filter has not visited yet
    kept,                   \* constraints the filter has kept so far
    output                  \* the ConstraintSet returned, or NoOutput

vars == <<inputs, params, set_map, sets, constraints, err, pc, calls, last,
          unified, found_both, probe, most_concrete_type_map, relevant, order,
          pending, kept, output>>

(***************************************************************************)
(* Bounds of the model.                                                    *)
(***************************************************************************)
MaxCalls == 2

(***************************************************************************)
(* The Type / Path data model (src/ty.rs, src/path.rs).  Every node is a   *)
(* record of one shape: a tag, a number (id, lifetime, ident or flag) and  *)
(* the ordered children.  Lifetime None is 0.                              *)
(***************************************************************************)
Node(tag, n, kids) == [tag |-> tag, n |-> n, kids |-> kids]

Infer == Node("Infer", 0, <<>>)
Tuple(types) == Node("Tuple", 0, types)
PrimitiveStr == Node("PrimitiveStr", 0, <<>>)
Reference(lifetime, inner) == Node("Reference", lifetime, <<inner>>)
ReferenceMut(lifetime, inner) == Node("ReferenceMut", lifetime, <<inner>>)
Dereference(inner) == Node("Dereference", 0, <<inner>>)
TraitObject(bounds) == Node("TraitObject", 0, bounds)
DataStructure(name) == Node("DataStructure", name, <<>>)
TypeParam(id) == Node("TypeParam", id, <<>>)

\* Path { global, path }: n is 1 for a global path, kids are the segments.
Path(global, segments) == Node("Path", IF global THEN 1 ELSE 0, segments)
\* PathSegment { ident, args }: the tag is the PathArguments variant.
SegNone(ident) == Node("None", ident, <<>>)
SegAngle(ident, args) == Node("AngleBracketed", ident, args)
SegParen(ident, types) == Node("Parenthesized", ident, types)
\* GenericArgument
ArgType(ty) == Node("ArgType", 0, <<ty>>)
ArgLifetime(lifetime) == Node("ArgLifetime", lifetime, <<>>)
\* TypeParamBound
BoundTrait(path) == Node("Trait", 0, <<path>>)
BoundLifetime(lifetime) == Node("Lifetime", lifetime, <<>>)

\* GenericConstraint::Type(PredicateType { lifetimes, bounded_ty, bounds })
ConstraintType(bounded_ty, bounds) ==
    [kind |-> "Type", bounded_ty |-> bounded_ty, bounds |-> bounds,
     lifetimes |-> <<>>]
\* GenericConstraint::Lifetime(_)
ConstraintLifetime(lifetime) ==
    [kind |-> "Lifetime", bounded_ty |-> Infer,
     bounds |-> <<BoundLifetime(lifetime)>>, lifetimes |-> <<>>]

LastSegment(path) == path.kids[Len(path.kids)]

(***************************************************************************)
(* The equality-set store.  A store value st carries set_map, sets, the    *)
(* constraint set and the panic raised so far; a panic unwinds, so every   *)
(* operation on a store that already panicked leaves it as it is.  The     *)
(* field both is history: it records that some call found its operands in *)
(* two different sets.                                                     *)
(***************************************************************************)
Store(m, s, c, e, h) ==
    [set_map |-> m, sets |-> s, constraints |-> c, err |-> e, both |-> h]

Panic(st, what) == [st EXCEPT !.err = what]

\* HashMap::insert on set_map
MapInsert(m, ty, set_ref) == (ty :> set_ref) @@ m

\* TypeEqualitySets::get_set_ref; NoRef stands for Option::None
NoRef == -1
GetSetRef(m, ty) == IF ty \in DOMAIN m THEN m[ty] ELSE NoRef

\* TypeEqualitySets::new_set
NewSet(st, ty) ==
    [st EXCEPT !.sets = Append(st.sets, {ty}),
               !.set_map = MapInsert(st.set_map, ty, Len(st.sets))]

\* ConstraintSet::insert
ConstraintInsert(st, c) == [st EXCEPT !.constraints = @ \cup {c}]

RECURSIVE InsertAsEqualTo(_, _, _)
RECURSIVE InsertInnerTypeAsEqualTo(_, _, _)
RECURSIVE InsertPathArgumentsAsEqualTo(_, _, _)
RECURSIVE InsertSegmentArguments(_, _, _)
RECURSIVE InsertZip(_, _, _, _)
RECURSIVE InsertArgsZip(_, _, _, _)
RECURSIVE InsertBoundsZip(_, _, _, _)

\* types1.iter().zip(types2.iter()).for_each(insert_as_equal_to), from i on
InsertZip(st, types1, types2, i) ==
    IF i > Len(types1) \/ i > Len(types2) \/ st.err # "none" THEN st
    ELSE InsertZip(InsertAsEqualTo(st, types1[i], types2[i]),
                   types1, types2, i + 1)

\* the for_each of lines 246-258 with an arm that lets a pair of lifetime
\* arguments pass
InsertArgsZipLifetimes(st, args1, args2, i) ==
    IF i > Len(args1) \/ i > Len(args2) \/ st.err # "none" THEN st
    ELSE IF args1[i].tag = "ArgType" /\ args2[i].tag = "ArgType"
         THEN InsertArgsZip(
                  InsertAsEqualTo(st, args1[i].kids[1], args2[i].kids[1]),
                  args1, args2, i + 1)
         ELSE IF args1[i].tag = "ArgLifetime" /\ args2[i].tag = "ArgLifetime"
         THEN InsertArgsZip(st, args1, args2, i + 1)
         ELSE Panic(st, "UnsupportedConstruct")

\* the for_each over zipped generic arguments (lines 246-258), from i on
InsertArgsZip(st, args1, args2, i) ==
    IF i > Len(args1) \/ i > Len(args2) \/ st.err # "none" THEN st
    ELSE IF args1[i].tag = "ArgType" /\ args2[i].tag = "ArgType"
         THEN InsertArgsZip(
                  InsertAsEqualTo(st, args1[i].kids[1], args2[i].kids[1]),
                  args1, args2, i + 1)
         ELSE Panic(st, "UnsupportedConstruct")

\* the for_each over zipped trait-object bounds (lines 214-227), from i on
InsertBoundsZip(st, bounds1, bounds2, i) ==
    IF i > Len(bounds1) \/ i > Len(bounds2) \/ st.err # "none" THEN st
    ELSE IF bounds1[i].tag = "Trait" /\ bounds2[i].tag = "Trait"
         THEN InsertBoundsZip(
                  InsertPathArgumentsAsEqualTo(st, bounds1[i].kids[1],
                                               bounds2[i].kids[1]),
                  bounds1, bounds2, i + 1)
         ELSE InsertBoundsZip(st, bounds1, bounds2, i + 1)

\* the match of lines 242-267 without the guard of line 244: argument
\* lists of different lengths are zipped as far as the shorter one goes
InsertSegmentArgumentsZipping(st, segment1, segment2) ==
    IF st.err # "none" THEN st
    ELSE IF segment1.tag = "AngleBracketed" /\ segment2.tag = "AngleBracketed"
    THEN InsertArgsZip(st, segment1.kids, segment2.kids, 1)
    ELSE IF segment1.tag = "Parenthesized"
    THEN Panic(st, "UnsupportedConstruct")
    ELSE IF segment2.tag = "Parenthesized"
    THEN Panic(st, "UnsupportedConstruct")
    ELSE st

\* the match of lines 242-267 without the arm of lines 263-265: only the
\* first path is looked at for parenthesized arguments
InsertSegmentArgumentsFirstOnly(st, segment1, segment2) ==
    IF st.err # "none" THEN st
    ELSE IF /\ segment1.tag = "AngleBracketed"
            /\ segment2.tag = "AngleBracketed"
            /\ Len(segment1.kids) = Len(segment2.kids)
    THEN InsertArgsZip(st, segment1.kids, segment2.kids, 1)
    ELSE IF segment1.tag = "Parenthesized"
    THEN Panic(st, "UnsupportedConstruct")
    ELSE st

InsertSegmentArguments(st, segment1, segment2) ==
    IF st.err # "none" THEN st
    ELSE IF /\ segment1.tag = "AngleBracketed"
            /\ segment2.tag = "AngleBracketed"
            /\ Len(segment1.kids) = Len(segment2.kids)
    THEN InsertArgsZip(st, segment1.kids, segment2.kids, 1)
    ELSE IF segment1.tag = "Parenthesized"
    THEN Panic(st, "UnsupportedConstruct")
    ELSE IF segment2.tag = "Parenthesized"
    THEN Panic(st, "UnsupportedConstruct")
    ELSE st

InsertPathArgumentsAsEqualTo(st, path1, path2) ==
    InsertSegmentArguments(st, LastSegment(path1), LastSegment(path2))

\* insert_inner_type_as_equal_to without the panic of line 202: tuples of
\* different lengths are zipped as far as the shorter one goes
InsertInnerTypeLenient(st, ty1, ty2) ==
    IF st.err # "none" THEN st
    ELSE IF ty1.tag = "Tuple" /\ ty2.tag = "Tuple"
    THEN InsertZip(st, ty1.kids, ty2.kids, 1)
    ELSE IF ty1.tag \in {"Reference", "ReferenceMut"} /\ ty2.tag = ty1.tag
    THEN InsertAsEqualTo(st, ty1.kids[1], ty2.kids[1])
    ELSE IF ty1.tag = "Path" /\ ty2.tag = "Path"
    THEN InsertPathArgumentsAsEqualTo(st, ty1, ty2)
    ELSE IF ty1.tag = "TraitObject" /\ ty2.tag = "TraitObject"
    THEN InsertBoundsZip(st, ty1.kids, ty2.kids, 1)
    ELSE st

InsertInnerTypeAsEqualTo(st, ty1, ty2) ==
    IF st.err # "none" THEN st
    ELSE IF ty1.tag = "Tuple" /\ ty2.tag = "Tuple"
    THEN IF Len(ty1.kids) = Len(ty2.kids)
         THEN InsertZip(st, ty1.kids, ty2.kids, 1)
         ELSE Panic(st, "ArityMismatch")
    ELSE IF ty1.tag = "Reference" /\ ty2.tag = "Reference"
    THEN InsertAsEqualTo(st, ty1.kids[1], ty2.kids[1])
    ELSE IF ty1.tag = "ReferenceMut" /\ ty2.tag = "ReferenceMut"
    THEN InsertAsEqualTo(st, ty1.kids[1], ty2.kids[1])
    ELSE IF ty1.tag = "Path" /\ ty2.tag = "Path"
    THEN InsertPathArgumentsAsEqualTo(st, ty1, ty2)
    ELSE IF ty1.tag = "TraitObject" /\ ty2.tag = "TraitObject"
    THEN InsertBoundsZip(st, ty1.kids, ty2.kids, 1)
    ELSE st

\* lines 162-185 with the arm of lines 174-183 taken whatever the lookups
\* found: a new set for every pair
AddToSetsFresh(inner, ref1, ref2, ty1, ty2) ==
    IF inner.err # "none" THEN inner
    ELSE [inner EXCEPT
             !.sets = Append(inner.sets, {ty2, ty1}),
             !.set_map = MapInsert(MapInsert(inner.set_map, ty2,
                                             Len(inner.sets)),
                                   ty1, Len(inner.sets))]

\* lines 162-185 with a true union when the lookups found two different
\* sets: every member of ty2's set joins ty1's set and is repointed to it
AddToSetsUnion(inner, ref1, ref2, ty1, ty2) ==
    IF inner.err # "none" THEN inner
    ELSE IF ref1 # NoRef /\ ref2 # NoRef /\ ref2 # ref1
    THEN [inner EXCEPT
             !.sets[ref1 + 1] = @ \cup inner.sets[ref2 + 1] \cup {ty2},
             !.set_map = [ty \in DOMAIN inner.set_map |->
                              IF inner.set_map[ty] = ref2 THEN ref1
                              ELSE inner.set_map[ty]],
             !.both = TRUE]
    ELSE IF ref1 # NoRef
    THEN [inner EXCEPT
             !.sets[ref1 + 1] = @ \cup {ty2},
             !.set_map = MapInsert(inner.set_map, ty2, ref1)]
    ELSE IF ref2 # NoRef
    THEN [inner EXCEPT
             !.sets[ref2 + 1] = @ \cup {ty1},
             !.set_map = MapInsert(inner.set_map, ty1, ref2)]
    ELSE [inner EXCEPT
             !.sets = Append(inner.sets, {ty2, ty1}),
             !.set_map = MapInsert(MapInsert(inner.set_map, ty2,
                                             Len(inner.sets)),
                                   ty1, Len(inner.sets))]

\* lines 162-185 without the set insertions of lines 165 and 171: a type
\* that joins a known set is entered in set_map only
AddToSetsMapOnly(inner, ref1, ref2, ty1, ty2) ==
    IF inner.err # "none" THEN inner
    ELSE IF ref1 # NoRef
    THEN [inner EXCEPT
             !.set_map = MapInsert(inner.set_map, ty2, ref1),
             !.both = @ \/ (ref2 # NoRef /\ ref2 # ref1)]
    ELSE IF ref2 # NoRef
    THEN [inner EXCEPT
             !.set_map = MapInsert(inner.set_map, ty1, ref2)]
    ELSE [inner EXCEPT
             !.sets = Append(inner.sets, {ty2, ty1}),
             !.set_map = MapInsert(MapInsert(inner.set_map, ty2,
                                             Len(inner.sets)),
                                   ty1, Len(inner.sets))]

\* lines 162-185: the set lookup comes first, the inner recursion second,
\* the insertion into the set found (or into a new set) last
\* ref1 and ref2 are what set_map held for ty1 and ty2 before the recursion,
\* inner is the store after it
AddToSets(inner, ref1, ref2, ty1, ty2) ==
    IF inner.err # "none" THEN inner
    ELSE IF ref1 # NoRef
    THEN [inner EXCEPT
             !.sets[ref1 + 1] = @ \cup {ty2},
             !.set_map = MapInsert(inner.set_map, ty2, ref1),
             !.both = @ \/ (ref2 # NoRef /\ ref2 # ref1)]
    ELSE IF ref2 # NoRef
    THEN [inner EXCEPT
             !.sets[ref2 + 1] = @ \cup {ty1},
             !.set_map = MapInsert(inner.set_map, ty1, ref2)]
    ELSE [inner EXCEPT
             !.sets = Append(inner.sets, {ty2, ty1}),
             !.set_map = MapInsert(MapInsert(inner.set_map, ty2,
                                             Len(inner.sets)),
                                   ty1, Len(inner.sets))]

InsertIntoSets(st, ty1, ty2) ==
    AddToSets(InsertInnerTypeAsEqualTo(st, ty1, ty2),
              GetSetRef(st.set_map, ty1), GetSetRef(st.set_map, ty2),
              ty1, ty2)

\* insert_as_equal_to with the return of lines 134 and 142 forgotten: the
\* constraint is emitted and the pair goes on to the set lookup
InsertAsEqualToMerging(st, ty1, ty2) ==
    IF st.err # "none" THEN st
    ELSE IF ty1.tag = "TraitObject" /\ ty2.tag = "TraitObject"
    THEN IF Len(ty1.kids) # Len(ty2.kids)
         THEN Panic(st, "ArityMismatch")
         ELSE InsertInnerTypeAsEqualTo(st, ty1, ty2)
    ELSE IF ty1.tag = "TraitObject"
    THEN InsertIntoSets(ConstraintInsert(st, ConstraintType(ty2, ty1.kids)),
                        ty1, ty2)
    ELSE IF ty2.tag = "TraitObject"
    THEN InsertIntoSets(ConstraintInsert(st, ConstraintType(ty1, ty2.kids)),
                        ty1, ty2)
    ELSE IF ty1.tag = "Reference" /\ ty2.tag = "ReferenceMut"
    THEN InsertAsEqualTo(st, ty1.kids[1], ty2.kids[1])
    ELSE IF ty1.tag = "ReferenceMut" /\ ty2.tag = "Reference"
    THEN InsertAsEqualTo(st, ty1.kids[1], ty2.kids[1])
    ELSE InsertIntoSets(st, ty1, ty2)

\* insert_as_equal_to with the return of line 126 forgotten: two trait
\* objects go on to the set lookup after the recursion into their bounds
InsertAsEqualToJoining(st, ty1, ty2) ==
    IF st.err # "none" THEN st
    ELSE IF ty1.tag = "TraitObject" /\ ty2.tag = "TraitObject"
    THEN IF Len(ty1.kids) # Len(ty2.kids)
         THEN Panic(st, "ArityMismatch")
         ELSE InsertIntoSets(st, ty1, ty2)
    ELSE IF ty1.tag = "TraitObject"
    THEN ConstraintInsert(st, ConstraintType(ty2, ty1.kids))
    ELSE IF ty2.tag = "TraitObject"
    THEN ConstraintInsert(st, ConstraintType(ty1, ty2.kids))
    ELSE IF ty1.tag = "Reference" /\ ty2.tag = "ReferenceMut"
    THEN InsertAsEqualTo(st, ty1.kids[1], ty2.kids[1])
    ELSE IF ty1.tag = "ReferenceMut" /\ ty2.tag = "Reference"
    THEN InsertAsEqualTo(st, ty1.kids[1], ty2.kids[1])
    ELSE InsertIntoSets(st, ty1, ty2)

\* insert_as_equal_to without the arms of lines 146-159: a reference and a
\* mutable reference are unified as they stand
InsertAsEqualToStrict(st, ty1, ty2) ==
    IF st.err # "none" THEN st
    ELSE IF ty1.tag = "TraitObject" /\ ty2.tag = "TraitObject"
    THEN IF Len(ty1.kids) # Len(ty2.kids)
         THEN Panic(st, "ArityMismatch")
         ELSE InsertInnerTypeAsEqualTo(st, ty1, ty2)
    ELSE IF ty1.tag = "TraitObject"
    THEN ConstraintInsert(st, ConstraintType(ty2, ty1.kids))
    ELSE IF ty2.tag = "TraitObject"
    THEN ConstraintInsert(st, ConstraintType(ty1, ty2.kids))
    ELSE InsertIntoSets(st, ty1, ty2)

InsertAsEqualTo(st, ty1, ty2) ==
    IF st.err # "none" THEN st
    ELSE IF ty1.tag = "TraitObject" /\ ty2.tag = "TraitObject"
    THEN IF Len(ty1.kids) # Len(ty2.kids)
         THEN Panic(st, "ArityMismatch")
         ELSE InsertInnerTypeAsEqualTo(st, ty1, ty2)
    ELSE IF ty1.tag = "TraitObject"
    THEN ConstraintInsert(st, ConstraintType(ty2, ty1.kids))
    ELSE IF ty2.tag = "TraitObject"
    THEN ConstraintInsert(st, ConstraintType(ty1, ty2.kids))
    ELSE IF ty1.tag = "Reference" /\ ty2.tag = "ReferenceMut"
    THEN InsertAsEqualTo(st, ty1.kids[1], ty2.kids[1])
    ELSE IF ty1.tag = "ReferenceMut" /\ ty2.tag = "Reference"
    THEN InsertAsEqualTo(st, ty1.kids[1], ty2.kids[1])
    ELSE InsertIntoSets(st, ty1, ty2)

(***************************************************************************)
(* The most-concrete resolver.  A result carries the node, the memo after  *)
(* the call and the panic raised, if any.  ord gives, for a set ref, the   *)
(* order in which its HashSet hands out its members.                       *)
(***************************************************************************)
Res(node, memo, e) == [node |-> node, memo |-> memo, err |-> e]

\* set.iter() of set ref: the order chosen for it, or the only order of a
\* set of one member
Members(st, ord, set_ref) ==
    IF set_ref + 1 <= Len(ord) THEN ord[set_ref + 1]
    ELSE <<CHOOSE ty \in st.sets[set_ref + 1] : TRUE>>

RECURSIVE SetMakeMostConcrete(_, _, _, _)
RECURSIVE TypeMakeMostConcrete(_, _, _, _)
RECURSIVE MakeMostConcreteFromPair(_, _, _, _, _)
RECURSIVE PathMakeMostConcreteFromPair(_, _, _, _, _)
RECURSIVE FoldMembers(_, _, _, _, _)
RECURSIVE PairZip(_, _, _, _, _, _)
RECURSIVE PairArgsZip(_, _, _, _, _, _)

\* iterator.fold(first, make_most_concrete_from_pair): r is the fold so far,
\* members[i] the next member
FoldMembers(r, members, i, st, ord) ==
    IF i > Len(members) \/ r.err # "none" THEN r
    ELSE FoldMembers(
             MakeMostConcreteFromPair(r.node, members[i], r.memo, st, ord),
             members, i + 1, st, ord)

\* make_most_concrete without the insert of line 80: the memo keeps the
\* placeholder
MemoizeDropped(set_ref, r) == r

\* line 80: the memo takes the folded value
Memoize(set_ref, r) ==
    IF r.err # "none" THEN r
    ELSE Res(r.node, (set_ref :> r.node) @@ r.memo, "none")

\* lines 68-79: the placeholder, then the fold seeded with the first member
FoldSet(set_ref, members, memo, st, ord) ==
    Memoize(set_ref,
            FoldMembers(Res(members[1], (set_ref :> Infer) @@ memo, "none"),
                        members, 2, st, ord))

\* TypeEqualitySetRef::make_most_concrete
SetMakeMostConcrete(set_ref, memo, st, ord) ==
    IF set_ref \in DOMAIN memo THEN Res(memo[set_ref], memo, "none")
    ELSE FoldSet(set_ref, Members(st, ord, set_ref), memo, st, ord)

\* TypeNode::make_most_concrete
TypeMakeMostConcrete(node, memo, st, ord) ==
    IF node \in DOMAIN st.set_map
    THEN SetMakeMostConcrete(st.set_map[node], memo, st, ord)
    ELSE Res(node, memo, "none")

\* r with its node appended to the nodes merged so far
PushNode(acc, r) ==
    IF r.err # "none" THEN r ELSE Res(Append(acc, r.node), r.memo, "none")

\* the zipped element-wise merge of two tuples (lines 500-513), from i on;
\* r.node holds the merged elements so far
PairZip(types1, types2, i, r, st, ord) ==
    IF i > Len(types1) \/ r.err # "none" THEN r
    ELSE PairZip(types1, types2, i + 1,
                 PushNode(r.node,
                         MakeMostConcreteFromPair(types1[i], types2[i],
                                                  r.memo, st, ord)),
                 st, ord)

\* r with its node wrapped by one of Tuple, Reference, ReferenceMut, ArgType
Wrap(tag, r) ==
    IF r.err # "none" THEN r
    ELSE Res(CASE tag = "Tuple" -> Tuple(r.node)
               [] tag = "Reference" -> Reference(0, r.node)
               [] tag = "ReferenceMut" -> ReferenceMut(0, r.node)
               [] tag = "ArgType" -> ArgType(r.node),
             r.memo, "none")

\* the zipped merge of two generic argument lists (lines 727-748), from i on;
\* r.node holds the merged arguments so far
PairArgsZip(args1, args2, i, r, st, ord) ==
    IF i > Len(args1) \/ r.err # "none" THEN r
    ELSE IF args1[i].tag = "ArgType" /\ args2[i].tag = "ArgType"
    THEN PairArgsZip(args1, args2, i + 1,
             PushNode(r.node,
                     Wrap("ArgType",
                          MakeMostConcreteFromPair(args1[i].kids[1],
                                                   args2[i].kids[1],
                                                   r.memo, st, ord))),
             st, ord)
    ELSE IF args1[i].tag = "ArgLifetime" /\ args2[i].tag = "ArgLifetime"
    THEN PairArgsZip(args1, args2, i + 1,
                     Res(Append(r.node, args1[i]), r.memo, "none"), st, ord)
    ELSE Res(Infer, r.memo, "UnsupportedConstruct")

\* the path with the arguments of its last segment replaced
WithLastArgs(path, args) ==
    [path EXCEPT !.kids[Len(path.kids)].kids = args]

\* lines 750-756: the merged arguments r.node go onto path1 when it is global
\* or has fewer segments, onto path2 otherwise
WriteArgs(path1, path2, r) ==
    IF r.err # "none" THEN r
    ELSE IF path1.n = 1 \/ Len(path1.kids) < Len(path2.kids)
    THEN Res(WithLastArgs(path1, r.node), r.memo, "none")
    ELSE Res(WithLastArgs(path2, r.node), r.memo, "none")

\* the match of lines 711-763 without the comparison of lines 719-724: of
\* two argument lists of different lengths the first path's is taken
SegmentsConcreteFirst(path1, path2, segment1, segment2, memo, st, ord) ==
    IF segment1.tag = "None" THEN Res(path1, memo, "none")
    ELSE IF segment2.tag = "None" THEN Res(path2, memo, "none")
    ELSE IF segment1.tag = "AngleBracketed" /\ segment2.tag = "AngleBracketed"
    THEN IF Len(segment1.kids) # Len(segment2.kids)
         THEN TypeMakeMostConcrete(path1, memo, st, ord)
         ELSE WriteArgs(path1, path2,
                        PairArgsZip(segment1.kids, segment2.kids, 1,
                                    Res(<<>>, memo, "none"), st, ord))
    ELSE IF segment1.tag = "Parenthesized" /\ segment2.tag = "Parenthesized"
    THEN Res(Infer, memo, "UnsupportedConstruct")
    ELSE Res(Infer, memo, "InternalInconsistency")

\* the match on the arguments of the two last segments (lines 711-763)
SegmentsMakeMostConcrete(path1, path2, segment1, segment2, memo, st, ord) ==
    IF segment1.tag = "None" THEN Res(path1, memo, "none")
    ELSE IF segment2.tag = "None" THEN Res(path2, memo, "none")
    ELSE IF segment1.tag = "AngleBracketed" /\ segment2.tag = "AngleBracketed"
    THEN IF Len(segment1.kids) # Len(segment2.kids)
         THEN TypeMakeMostConcrete(
                  IF Len(segment1.kids) < Len(segment2.kids) THEN path1
                  ELSE path2, memo, st, ord)
         ELSE WriteArgs(path1, path2,
                        PairArgsZip(segment1.kids, segment2.kids, 1,
                                    Res(<<>>, memo, "none"), st, ord))
    ELSE IF segment1.tag = "Parenthesized" /\ segment2.tag = "Parenthesized"
    THEN Res(Infer, memo, "UnsupportedConstruct")
    ELSE Res(Infer, memo, "InternalInconsistency")

\* Path::make_most_concrete_from_pair
PathMakeMostConcreteFromPair(path1, path2, memo, st, ord) ==
    SegmentsMakeMostConcrete(path1, path2, LastSegment(path1),
                             LastSegment(path2), memo, st, ord)

\* the arm of the match of make_most_concrete_from_pair that (ty1, ty2) takes
PairArm(ty1, ty2) ==
    IF ty1.tag = "Infer" THEN "second"
    ELSE IF ty2.tag = "Infer" THEN "first"
    ELSE IF ty1.tag = "PrimitiveStr" \/ ty2.tag = "PrimitiveStr" THEN "str"
    ELSE IF ty1.tag = "Path" /\ ty2.tag = "Path" THEN "paths"
    ELSE IF ty1.tag = "Path" THEN "first"
    ELSE IF ty2.tag = "Path" THEN "second"
    ELSE IF ty1.tag = "Tuple" /\ ty2.tag = "Tuple"
            /\ Len(ty1.kids) = Len(ty2.kids) THEN "tuples"
    ELSE IF ty1.tag = "Reference" /\ ty2.tag = "Reference" THEN "inner"
    ELSE IF ty1.tag = "ReferenceMut" /\ ty2.tag = "ReferenceMut" THEN "inner"
    ELSE IF ty1.tag = "TraitObject" THEN "second"
    ELSE IF ty2.tag = "TraitObject" THEN "first"
    ELSE IF ty1.tag = "TypeParam" /\ ty2.tag = "TypeParam" THEN "params"
    ELSE "panic"

\* make_most_concrete_from_pair without the comparison of line 543: of two
\* parameters the first operand is returned
MakeMostConcreteFromPairFirst(ty1, ty2, memo, st, ord) ==
    CASE PairArm(ty1, ty2) \in {"first", "second"} ->
             TypeMakeMostConcrete(
                 IF PairArm(ty1, ty2) = "first" THEN ty1 ELSE ty2,
                 memo, st, ord)
      [] PairArm(ty1, ty2) = "str" -> Res(PrimitiveStr, memo, "none")
      [] PairArm(ty1, ty2) = "paths" ->
             PathMakeMostConcreteFromPair(ty1, ty2, memo, st, ord)
      [] PairArm(ty1, ty2) = "tuples" ->
             Wrap("Tuple", PairZip(ty1.kids, ty2.kids, 1,
                                   Res(<<>>, memo, "none"), st, ord))
      [] PairArm(ty1, ty2) = "inner" ->
             Wrap(ty1.tag,
                  MakeMostConcreteFromPair(ty1.kids[1], ty2.kids[1],
                                           memo, st, ord))
      [] PairArm(ty1, ty2) = "params" -> Res(ty1, memo, "none")
      [] OTHER -> Res(Infer, memo, "InternalInconsistency")

\* TypeNode::make_most_concrete_from_pair
MakeMostConcreteFromPair(ty1, ty2, memo, st, ord) ==
    CASE PairArm(ty1, ty2) \in {"first", "second"} ->
             TypeMakeMostConcrete(
                 IF PairArm(ty1, ty2) = "first" THEN ty1 ELSE ty2,
                 memo, st, ord)
      [] PairArm(ty1, ty2) = "str" -> Res(PrimitiveStr, memo, "none")
      [] PairArm(ty1, ty2) = "paths" ->
             PathMakeMostConcreteFromPair(ty1, ty2, memo, st, ord)
      [] PairArm(ty1, ty2) = "tuples" ->
             Wrap("Tuple", PairZip(ty1.kids, ty2.kids, 1,
                                   Res(<<>>, memo, "none"), st, ord))
      [] PairArm(ty1, ty2) = "inner" ->
             Wrap(ty1.tag,
                  MakeMostConcreteFromPair(ty1.kids[1], ty2.kids[1],
                                           memo, st, ord))
      [] PairArm(ty1, ty2) = "params" ->
             Res(IF ty1.n < ty2.n THEN ty1 ELSE ty2, memo, "none")
      [] OTHER -> Res(Infer, memo, "InternalInconsistency")

(***************************************************************************)
(* The closure of relevant set refs (generic_param_set_refs).  A result    *)
(* carries the store (new_set may extend it), the refs and the memo.       *)
(***************************************************************************)
Refs(st, refs) == [st |-> st, refs |-> refs]

\* get_set_ref(ty).unwrap_or_else(|| new_set(ty)) followed by the insertion
\* of the set ref into the refs collected
RefOrNewSet(r, ty) ==
    IF ty \in DOMAIN r.st.set_map
    THEN Refs(r.st, r.refs \cup {r.st.set_map[ty]})
    ELSE Refs(NewSet(r.st, ty), r.refs \cup {Len(r.st.sets)})

RECURSIVE InnerParamSetRefs(_, _)
RECURSIVE InnerParamSetRefsSeq(_, _, _)
RECURSIVE PathInnerArgs(_, _, _)
RECURSIVE PathInnerSegments(_, _, _)

\* TypeNode::inner_param_set_refs
InnerParamSetRefs(node, r) ==
    IF r.st.err # "none" THEN r
    ELSE IF node.tag = "Tuple" THEN InnerParamSetRefsSeq(node.kids, 1, r)
    ELSE IF node.tag \in {"Reference", "ReferenceMut"}
    THEN InnerParamSetRefs(node.kids[1], r)
    ELSE IF node.tag = "Path" THEN PathInnerSegments(node.kids, 1, r)
    ELSE IF node.tag = "TypeParam" THEN RefOrNewSet(r, node)
    ELSE r

InnerParamSetRefsSeq(types, i, r) ==
    IF i > Len(types) \/ r.st.err # "none" THEN r
    ELSE InnerParamSetRefsSeq(types, i + 1, InnerParamSetRefs(types[i], r))

\* the arguments of one angle-bracketed segment (lines 680-690), from i on
PathInnerArgs(args, i, r) ==
    IF i > Len(args) \/ r.st.err # "none" THEN r
    ELSE IF args[i].tag = "ArgType"
    THEN PathInnerArgs(args, i + 1, InnerParamSetRefs(args[i].kids[1], r))
    ELSE Refs(Panic(r.st, "UnsupportedConstruct"), r.refs)

\* Path::inner_param_set_refs: every segment of the path, from i on
PathInnerSegments(segments, i, r) ==
    IF i > Len(segments) \/ r.st.err # "none" THEN r
    ELSE IF segments[i].tag = "None"
    THEN PathInnerSegments(segments, i + 1, r)
    ELSE IF segments[i].tag = "AngleBracketed"
    THEN PathInnerSegments(segments, i + 1,
                           PathInnerArgs(segments[i].kids, 1, r))
    ELSE Refs(Panic(r.st, "UnsupportedConstruct"), r.refs)

\* GenericParam of the implementation: a type parameter or a lifetime
ParamType(id) == [kind |-> "Type", id |-> id]
ParamLifetime(id) == [kind |-> "Lifetime", id |-> id]

\* the type parameters of a BTreeSet<GenericParam> in ascending order
RECURSIVE ParamSeq(_)
ParamSeq(ids) ==
    IF ids = {} THEN <<>>
    ELSE LET least == CHOOSE i \in ids : \A j \in ids : i <= j
         IN  <<least>> \o ParamSeq(ids \ {least})

Closure(st, refs, checked, memo) ==
    [st |-> st, refs |-> refs, checked |-> checked, memo |-> memo]

\* line 347: the parameters inside the resolved node m.node join the refs
ClosureOf(r, checked, memo) == Closure(r.st, r.refs, checked, memo)

AfterResolve(g, st1, set_ref, m) ==
    IF m.err # "none"
    THEN Closure(Panic(st1, m.err), g.refs, g.checked, m.memo)
    ELSE ClosureOf(InnerParamSetRefs(m.node, Refs(st1, g.refs)),
                   g.checked \cup {set_ref}, m.memo)

\* lines 344-348, for the set ref of the parameter in the store st1
CheckSetRef(g, st1, set_ref, ord) ==
    IF set_ref \in g.checked THEN Closure(st1, g.refs, g.checked, g.memo)
    ELSE AfterResolve(g, st1, set_ref,
                      SetMakeMostConcrete(set_ref, g.memo, st1, ord))

\* lines 339-342: the set ref of the parameter, of a new set if it has none
ParamSetRef(g, ty, ord) ==
    IF ty \in DOMAIN g.st.set_map
    THEN CheckSetRef(g, g.st, g.st.set_map[ty], ord)
    ELSE CheckSetRef(g, NewSet(g.st, ty), Len(g.st.sets), ord)

RECURSIVE GenericParamSetRefsFrom(_, _, _, _)

\* the for_each of generic_param_set_refs (lines 338-349), from i on
GenericParamSetRefsFrom(ids, i, g, ord) ==
    IF i > Len(ids) \/ g.st.err # "none" THEN g
    ELSE GenericParamSetRefsFrom(ids, i + 1,
                                 ParamSetRef(g, TypeParam(ids[i]), ord), ord)

\* generic_param_set_refs; param.type_param_ref().unwrap() panics on a
\* lifetime parameter
GenericParamSetRefs(relevant_generic_params, memo, st, ord) ==
    IF \E p \in relevant_generic_params : p.kind # "Type"
    THEN Closure(Panic(st, "UnwrapNone"), {}, {}, memo)
    ELSE GenericParamSetRefsFrom(
             ParamSeq({p.id : p \in relevant_generic_params}), 1,
             Closure(st, {}, {}, memo), ord)

(***************************************************************************)
(* The relevance filter.                                                   *)
(***************************************************************************)
RECURSIVE IsRelevant(_, _, _)

\* is_relevant with an arm for tuples: relevant when every element is
IsRelevantThroughTuples(node, st, relevant_generic_params) ==
    IF node.tag = "TypeParam"
    THEN /\ node \in DOMAIN st.set_map
         /\ st.set_map[node] \in relevant_generic_params
    ELSE IF node.tag \in {"Reference", "ReferenceMut"}
    THEN IsRelevant(node.kids[1], st, relevant_generic_params)
    ELSE IF node.tag = "Tuple"
    THEN \A i \in 1..Len(node.kids) :
             IsRelevant(node.kids[i], st, relevant_generic_params)
    ELSE FALSE

\* TypeNode::is_relevant
IsRelevant(node, st, relevant_generic_params) ==
    IF node.tag = "TypeParam"
    THEN /\ node \in DOMAIN st.set_map
         /\ st.set_map[node] \in relevant_generic_params
    ELSE IF node.tag \in {"Reference", "ReferenceMut"}
    THEN IsRelevant(node.kids[1], st, relevant_generic_params)
    ELSE FALSE

\* a bool, or the panic raised instead
Judged(val, e) == [val |-> val, err |-> e]

\* args.iter().all(..) of lines 646-654, from i on
RECURSIVE ArgsAreRelevant(_, _, _, _)
ArgsAreRelevant(args, i, st, rel) ==
    IF i > Len(args) THEN TRUE
    ELSE IF args[i].tag = "ArgType"
    THEN /\ IsRelevant(args[i].kids[1], st, rel)
         /\ ArgsAreRelevant(args, i + 1, st, rel)
    ELSE ArgsAreRelevant(args, i + 1, st, rel)

\* self.path.iter().all(..) of lines 643-659, from i on: all() stops at
\* the first segment judged false
RECURSIVE SegmentsAreRelevant(_, _, _, _)
SegmentsAreRelevant(segments, i, st, rel) ==
    IF i > Len(segments) THEN Judged(TRUE, "none")
    ELSE IF segments[i].tag = "None"
    THEN SegmentsAreRelevant(segments, i + 1, st, rel)
    ELSE IF segments[i].tag = "AngleBracketed"
    THEN IF ArgsAreRelevant(segments[i].kids, 1, st, rel)
         THEN SegmentsAreRelevant(segments, i + 1, st, rel)
         ELSE Judged(FALSE, "none")
    ELSE Judged(FALSE, "UnsupportedConstruct")

\* is_relevant looking at the last segment only
PathIsRelevantLastSegment(path, st, rel) ==
    SegmentsAreRelevant(path.kids, Len(path.kids), st, rel)

\* Path::is_relevant
PathIsRelevant(path, st, rel) == SegmentsAreRelevant(path.kids, 1, st, rel)

\* an Option<T> with the memo after the call and the panic raised, if any
Opt(some, val, memo, e) == [some |-> some, val |-> val, memo |-> memo, err |-> e]

\* lines 456-460: Some(node) if the resolved node r.node is relevant
SomeIfRelevant(r, st, rel) ==
    IF r.err # "none" THEN Opt(FALSE, r.node, r.memo, r.err)
    ELSE Opt(IsRelevant(r.node, st, rel), r.node, r.memo, "none")

\* TypeNode::make_most_relevant
TypeMakeMostRelevant(node, memo, st, rel, ord) ==
    SomeIfRelevant(TypeMakeMostConcrete(node, memo, st, ord), st, rel)

\* Path::make_most_relevant: todo!()
PathMakeMostRelevant(path, memo, st, rel, ord) ==
    Opt(FALSE, path, memo, "NotImplemented")

\* lines 616-628: the bound rebuilt around the path r.val
TraitOfPath(r) ==
    IF r.err # "none" \/ ~r.some THEN r
    ELSE Opt(TRUE, BoundTrait(r.val), r.memo, "none")

\* TypeParamBound::make_most_relevant
BoundMakeMostRelevant(bound, memo, st, rel, ord) ==
    IF bound.tag = "Trait"
    THEN TraitOfPath(PathMakeMostRelevant(bound.kids[1], memo, st, rel, ord))
    ELSE Opt(TRUE, bound, memo, "none")

\* the fold of iter_option_to_option_vec (lines 412-419): acc so far, r next
PushOption(acc, r) ==
    IF r.err # "none" THEN Opt(FALSE, acc.val, r.memo, r.err)
    ELSE IF acc.some /\ r.some
    THEN Opt(TRUE, Append(acc.val, r.val), r.memo, "none")
    ELSE Opt(FALSE, <<>>, r.memo, "none")

RECURSIVE BoundsMakeMostRelevant(_, _, _, _, _, _)

\* iter_option_to_option_vec over the mapped bounds, from i on
BoundsMakeMostRelevant(bounds, i, acc, st, rel, ord) ==
    IF i > Len(bounds) \/ acc.err # "none" THEN acc
    ELSE BoundsMakeMostRelevant(bounds, i + 1,
             PushOption(acc, BoundMakeMostRelevant(bounds[i], acc.memo, st,
                                                   rel, ord)),
             st, rel, ord)

\* lines 388-397: the predicate rebuilt around the bounded type and bounds
PredicateOf(pred, bounded_ty, bs) ==
    IF bs.err # "none" \/ ~bs.some THEN Opt(FALSE, pred, bs.memo, bs.err)
    ELSE Opt(TRUE, [pred EXCEPT !.bounded_ty = bounded_ty, !.bounds = bs.val],
             bs.memo, "none")

\* lines 380-400: the bounds are visited only if the bounded type b is Some
PredicateBounds(pred, b, st, rel, ord) ==
    IF b.err # "none" \/ ~b.some THEN Opt(FALSE, pred, b.memo, b.err)
    ELSE PredicateOf(pred, b.val,
                     BoundsMakeMostRelevant(pred.bounds, 1,
                                            Opt(TRUE, <<>>, b.memo, "none"),
                                            st, rel, ord))

\* PredicateType::make_most_relevant
PredicateMakeMostRelevant(pred, memo, st, rel, ord) ==
    PredicateBounds(pred,
                    TypeMakeMostRelevant(pred.bounded_ty, memo, st, rel, ord),
                    st, rel, ord)

\* GenericConstraint::make_most_relevant
ConstraintMakeMostRelevant(c, memo, st, rel, ord) ==
    IF c.kind = "Type" THEN PredicateMakeMostRelevant(c, memo, st, rel, ord)
    ELSE Opt(TRUE, c, memo, "none")

Filtered(set, memo, e) == [set |-> set, memo |-> memo, err |-> e]

\* filter_map keeps the constraint r.val if r is Some
Keep(acc, r) ==
    IF r.err # "none" THEN Filtered({}, r.memo, r.err)
    ELSE Filtered(IF r.some THEN acc.set \cup {r.val} ELSE acc.set,
                  r.memo, "none")

RECURSIVE FilterFrom(_, _, _, _, _, _)

\* constraints.set.into_iter().filter_map(make_most_relevant).collect()
\* (lines 310-320) over the constraints in the order cs, from i on
FilterFrom(cs, i, acc, st, rel, ord) ==
    IF i > Len(cs) \/ acc.err # "none" THEN acc
    ELSE FilterFrom(cs, i + 1,
                    Keep(acc, ConstraintMakeMostRelevant(cs[i], acc.memo, st,
                                                         rel, ord)),
                    st, rel, ord)

FilterConstraints(cs, memo, st, rel, ord) ==
    FilterFrom(cs, 1, Filtered({}, memo, "none"), st, rel, ord)

(***************************************************************************)
(* The inputs of a pass: the types, parameters and constraints that the    *)
(* implementation and its recorded invocations mention.                    *)
(***************************************************************************)
P == TypeParam(1)
Q == TypeParam(2)
X == TypeParam(3)
Y == TypeParam(4)

Display == Path(FALSE, <<SegNone(1)>>)
Clone == Path(FALSE, <<SegNone(2)>>)
Iterator == Path(FALSE, <<SegNone(3)>>)
\* W<ty>, a single-argument generic path
W(ty) == Path(FALSE, <<SegAngle(4, <<ArgType(ty)>>)>>)
DynIterator == TraitObject(<<BoundTrait(Iterator)>>)

PDisplay == ConstraintType(P, <<BoundTrait(Display)>>)
QClone == ConstraintType(Q, <<BoundTrait(Clone)>>)
Outlives(ty) == ConstraintType(ty, <<BoundLifetime(1)>>)

\* types: operands of insert_as_equal_to; params: the candidate parameter
\* sets; declared: the candidate declared constraint sets; copied: the
\* constraints declared on callees; limit: the calls recorded at most
Inputs(types, ps, declared, copied, limit) ==
    [types |-> types, params |-> ps, declared |-> declared,
     copied |-> copied, limit |-> limit]

BaseInputs ==
    Inputs({P, Q, Reference(0, P), ReferenceMut(0, Q), DynIterator},
           {{ParamType(1)}}, {{PDisplay}, {Outlives(P)}}, {QClone}, MaxCalls)

NoOutput == {[kind |-> "NoOutput", bounded_ty |-> Infer, bounds |-> <<>>,
              lifetimes |-> <<>>]}
NoCall == [op |-> "none", a |-> Infer, b |-> Infer]
NoProbe == [node |-> Infer, err |-> "none", resolved |-> Infer,
            resolved_err |-> "none", judged |-> FALSE]

(***************************************************************************)
(* Orders of iteration of the hash sets.                                   *)
(***************************************************************************)
\* the sequences that list every member of S once
RECURSIVE Perms(_)
Perms(S) ==
    IF S = {} THEN {<<>>}
    ELSE UNION {{<<x>> \o p : p \in Perms(S \ {x})} : x \in S}

\* one order for every set of the store: ord[r + 1] is that of set ref r
RECURSIVE Orders(_)
Orders(ss) ==
    IF ss = <<>> THEN {<<>>}
    ELSE {Append(o, p) : o \in Orders(SubSeq(ss, 1, Len(ss) - 1)),
                         p \in Perms(ss[Len(ss)])}

(***************************************************************************)
(* The pass: CompleteImpl::compute_trait_bounds.                           *)
(***************************************************************************)
TheStore == Store(set_map, sets, constraints, err, found_both)

InitOver(in) ==
    /\ inputs = in
    /\ params = {}
    /\ set_map = <<>>
    /\ sets = <<>>
    /\ constraints = {}
    /\ err = "none"
    /\ pc = "start"
    /\ calls = 0
    /\ last = NoCall
    /\ unified = {}
    /\ found_both = FALSE
    /\ probe = NoProbe
    /\ most_concrete_type_map = <<>>
    /\ relevant = {}
    /\ order = <<>>
    /\ pending = {}
    /\ kept = {}
    /\ output = NoOutput

Init == InitOver(BaseInputs)

\* lines 273-298: the declared constraints and the parameters of the
\* implementing structure and of the implemented trait
Seed(ps, cs) ==
    /\ pc = "start"
    /\ pc' = "collect"
    /\ params' = ps
    /\ constraints' = cs
    /\ last' = [op |-> "seed", a |-> Infer, b |-> Infer]
    /\ UNCHANGED <<inputs, set_map, sets, err, calls, unified, found_both,
                   probe, most_concrete_type_map, relevant, order, pending,
                   kept, output>>

\* whether a call on (ty1, ty2) goes to the set lookup of lines 162-185
ReachesLookup(ty1, ty2) ==
    /\ ty1.tag # "TraitObject"
    /\ ty2.tag # "TraitObject"
    /\ ~(ty1.tag = "Reference" /\ ty2.tag = "ReferenceMut")
    /\ ~(ty1.tag = "ReferenceMut" /\ ty2.tag = "Reference")

\* lines 804-811: one parameter type unified with one argument's type
Invoke(ty1, ty2) ==
    /\ pc = "collect"
    /\ calls < inputs.limit
    /\ \E st \in {InsertAsEqualTo(TheStore, ty1, ty2)} :
           /\ set_map' = st.set_map
           /\ sets' = st.sets
           /\ constraints' = st.constraints
           /\ err' = st.err
           /\ found_both' = st.both
           /\ pc' = IF st.err = "none" THEN "collect" ELSE "aborted"
           /\ unified' = IF st.err = "none" /\ ReachesLookup(ty1, ty2)
                         THEN unified \cup {{ty1, ty2}} ELSE unified
    /\ calls' = calls + 1
    /\ last' = [op |-> "insert", a |-> ty1, b |-> ty2]
    /\ UNCHANGED <<inputs, params, probe, most_concrete_type_map, relevant,
                   order, pending, kept, output>>

\* lines 815-831: a constraint of the callee or of its parent copied forward
CopyConstraint(c) ==
    /\ pc = "collect"
    /\ c \notin constraints
    /\ constraints' = constraints \cup {c}
    /\ last' = [op |-> "copy", a |-> c.bounded_ty, b |-> Infer]
    /\ UNCHANGED <<inputs, params, set_map, sets, err, pc, calls, unified,
                   found_both, probe, most_concrete_type_map, relevant, order,
                   pending, kept, output>>

\* lines 304-308: the closure of the relevant set refs; the hash sets hand
\* out their members in the order ord from here on
RelevantClosure(ord) ==
    /\ pc = "collect"
    /\ \E g \in {GenericParamSetRefs(params, <<>>, TheStore, ord)} :
           /\ set_map' = g.st.set_map
           /\ sets' = g.st.sets
           /\ err' = g.st.err
           /\ relevant' = g.refs
           /\ most_concrete_type_map' = g.memo
           /\ pc' = IF g.st.err = "none" THEN "filter" ELSE "aborted"
    /\ order' = ord
    /\ pending' = constraints
    /\ last' = [op |-> "closure", a |-> Infer, b |-> Infer]
    /\ UNCHANGED <<inputs, params, constraints, calls, unified, found_both,
                   probe, kept, output>>

\* lines 310-319: the filter_map visits one more constraint
FilterStep(c) ==
    /\ pc = "filter"
    /\ c \in pending
    /\ \E r \in {ConstraintMakeMostRelevant(c, most_concrete_type_map,
                                            TheStore, relevant, order)} :
           /\ err' = r.err
           /\ most_concrete_type_map' = r.memo
           /\ kept' = IF r.err = "none" /\ r.some THEN kept \cup {r.val}
                      ELSE kept
           /\ pc' = IF r.err = "none" THEN "filter" ELSE "aborted"
    /\ pending' = pending \ {c}
    /\ last' = [op |-> "filter", a |-> c.bounded_ty, b |-> Infer]
    /\ UNCHANGED <<inputs, params, set_map, sets, constraints, calls, unified,
                   found_both, probe, relevant, order, output>>

\* lines 320-322: the constraints kept are collected and returned
Return ==
    /\ pc = "filter"
    /\ pending = {}
    /\ pc' = "done"
    /\ output' = kept
    /\ last' = [op |-> "return", a |-> Infer, b |-> Infer]
    /\ UNCHANGED <<inputs, params, set_map, sets, constraints, err, calls,
                   unified, found_both, probe, most_concrete_type_map,
                   relevant, order, pending, kept>>

\* TypeNode::make_most_concrete_from_pair applied to a pair of types during
\* resolution; probe keeps its result beside the resolved form of ty1
MergePair(ty1, ty2) ==
    /\ pc = "filter"
    /\ \E r \in {MakeMostConcreteFromPair(ty1, ty2, most_concrete_type_map,
                                          TheStore, order)},
          f \in {TypeMakeMostConcrete(ty1, most_concrete_type_map,
                                      TheStore, order)} :
           /\ probe' = [node |-> r.node, err |-> r.err,
                        resolved |-> f.node, resolved_err |-> f.err,
                        judged |-> FALSE]
           /\ most_concrete_type_map' = r.memo
    /\ pc' = "merged"
    /\ last' = [op |-> "pair", a |-> ty1, b |-> ty2]
    /\ UNCHANGED <<inputs, params, set_map, sets, constraints, err, calls,
                   unified, found_both, relevant, order, pending, kept,
                   output>>

\* paths of one and of two segments, with arguments on the first segment,
\* on the last, on both, lifetime arguments and parenthesized arguments
Nested(first, last_) ==
    Path(FALSE, <<SegAngle(4, <<ArgType(first)>>),
                  SegAngle(6, <<ArgType(last_)>>)>>)
JudgedPaths ==
    {Display, W(P), W(Q), W(Tuple(<<P, Q>>)), W(Reference(0, P)),
     Nested(Q, P), Nested(P, Q), Nested(P, P),
     Path(FALSE, <<SegAngle(4, <<ArgType(Q)>>), SegNone(1)>>),
     Path(TRUE, <<SegAngle(4, <<ArgLifetime(1), ArgType(P)>>)>>),
     Path(FALSE, <<SegParen(7, <<P>>)>>),
     Path(FALSE, <<SegAngle(4, <<ArgType(X)>>), SegParen(7, <<P>>)>>)}

\* Path::is_relevant applied to a path against the store and the relevant
\* set refs of the pass
JudgePath(path) ==
    /\ pc = "filter"
    /\ \E r \in {PathIsRelevant(path, TheStore, relevant)} :
           probe' = [node |-> path, err |-> r.err, resolved |-> path,
                     resolved_err |-> "none", judged |-> r.val]
    /\ pc' = "judged"
    /\ last' = [op |-> "judge", a |-> path, b |-> Infer]
    /\ UNCHANGED <<inputs, params, set_map, sets, constraints, err, calls,
                   unified, found_both, most_concrete_type_map, relevant,
                   order, pending, kept, output>>

Collecting ==
    \/ \E ps \in inputs.params, cs \in inputs.declared : Seed(ps, cs)
    \/ \E ty1, ty2 \in inputs.types : Invoke(ty1, ty2)
    \/ \E c \in inputs.copied : CopyConstraint(c)

Next ==
    \/ Collecting
    \/ \E ord \in Orders(sets) : RelevantClosure(ord)
    \/ \E c \in pending : FilterStep(c)
    \/ Return

Spec == Init /\ [][Next]_vars

\* the pass with the resolver's merge of a pair applied after the closure
NextMerge ==
    \/ Collecting
    \/ \E ord \in Orders(sets) : RelevantClosure(ord)
    \/ \E ty1, ty2 \in inputs.types : MergePair(ty1, ty2)

(***************************************************************************)
(* The passes checked: each draws its operands from its own types.         *)
(***************************************************************************)
AllParams == {ParamType(1), ParamType(2), ParamType(3), ParamType(4)}

\* four parameters unified pairwise
UnionInputs ==
    Inputs({P, Q, X, Y}, {AllParams}, {{}, {Outlives(P)}}, {Outlives(Y)},
           MaxCalls + 1)
SpecUnion == InitOver(UnionInputs) /\ [][Next]_vars

\* references to references
NestedInputs ==
    Inputs({P, Q, Reference(0, P), Reference(0, Reference(0, P)),
            Reference(0, Q)},
           {{ParamType(1)}}, {{}, {Outlives(P)}}, {Outlives(Reference(0, Q))},
           MaxCalls)
SpecNested == InitOver(NestedInputs) /\ [][Next]_vars

\* tuples of two and of three elements, and tuples of tuples
Pair == Tuple(<<P, Q>>)
Triple == Tuple(<<P, Q, P>>)
TupleInputs ==
    Inputs({Pair, Triple, Tuple(<<DynIterator, Pair>>), Tuple(<<Q, Triple>>)},
           {{ParamType(1)}}, {{Outlives(P)}}, {Outlives(Q)}, MaxCalls)
SpecTuple == InitOver(TupleInputs) /\ [][Next]_vars

\* a field type and single-argument generic paths over parameters
PathInputs ==
    Inputs({P, Q, X, W(P), W(Q), W(X)},
           {{ParamType(1)}}, {{}, {Outlives(P)}}, {Outlives(W(Q))}, MaxCalls)
SpecPaths == InitOver(PathInputs) /\ [][Next]_vars

\* every variant of the type grammar, merged with itself and with the others
MergeInputs ==
    Inputs({Infer, PrimitiveStr, P, Q, Pair, Reference(1, P),
            ReferenceMut(0, P), Dereference(P), DynIterator, DataStructure(5),
            Display, W(P)},
           {{ParamType(1)}}, {{}}, {Outlives(Q)}, MaxCalls - 1)
SpecMerge == InitOver(MergeInputs) /\ [][NextMerge]_vars

\* two names without arguments, the string type, a parameter and a reference
OrderInputs ==
    Inputs({P, PrimitiveStr, Reference(0, P), Display, Clone},
           {{ParamType(1)}}, {{Outlives(P)}}, {Outlives(Q)}, MaxCalls)
SpecOrder == InitOver(OrderInputs) /\ [][Next]_vars

\* a parameter unified with a path over itself: sets whose members lead back
\* to sets in progress
CycleInputs ==
    Inputs({P, Q, W(P)},
           {{ParamType(1)}}, {{Outlives(P)}}, {Outlives(Q)}, MaxCalls + 1)
SpecCycle == InitOver(CycleInputs) /\ [][Next]_vars

\* constraints bounded on every shape of type, all with a lifetime bound
Shapes ==
    {{Outlives(P), Outlives(Q), Outlives(X), Outlives(Reference(0, Q))},
     {Outlives(ReferenceMut(0, Reference(1, P))), Outlives(Reference(0, X)),
      Outlives(Reference(0, Pair)), Outlives(Pair), Outlives(Infer)},
     {Outlives(PrimitiveStr), Outlives(Dereference(P)), Outlives(DynIterator),
      Outlives(DataStructure(5)), Outlives(W(P))}}
FilterInputs ==
    Inputs({P, Q}, {{ParamType(1)}}, Shapes, {Outlives(ReferenceMut(0, Q))},
           MaxCalls)
SpecFilter == InitOver(FilterInputs) /\ [][Next]_vars

\* the pass with Path::is_relevant applied after the closure
NextJudge ==
    \/ Collecting
    \/ \E ord \in Orders(sets) : RelevantClosure(ord)
    \/ \E path \in JudgedPaths : JudgePath(path)
JudgeInputs ==
    Inputs({P, Q}, {{ParamType(1)}}, {{}, {Outlives(P)}}, {Outlives(Q)},
           MaxCalls)
SpecJudge == InitOver(JudgeInputs) /\ [][NextJudge]_vars

\* trait objects of one and of two bounds, over traits with and without a
\* type argument, and with lifetime bounds
Dyn(bounds) == TraitObject(bounds)
TraitInputs ==
    Inputs({P,
            DynIterator,
            Dyn(<<BoundTrait(W(P))>>),
            Dyn(<<BoundTrait(W(Q))>>),
            Dyn(<<BoundLifetime(1), BoundTrait(W(P))>>),
            Dyn(<<BoundTrait(W(X)), BoundLifetime(1)>>),
            Dyn(<<BoundTrait(Display), BoundTrait(W(X))>>)},
           {{ParamType(1)}}, {{Outlives(P)}}, {Outlives(Q)}, MaxCalls)
SpecTraits == InitOver(TraitInputs) /\ [][Next]_vars

\* paths whose final segments carry no arguments, one or two type
\* arguments, and parenthesized arguments
W2(ty1, ty2) == Path(FALSE, <<SegAngle(4, <<ArgType(ty1), ArgType(ty2)>>)>>)
FnOf(ty) == Path(FALSE, <<SegParen(7, <<ty>>)>>)
SegmentInputs ==
    Inputs({P, Display, W(P), W(Q), W2(Q, X), FnOf(P), FnOf(Q)},
           {{ParamType(1)}}, {{Outlives(P)}}, {Outlives(Q)}, MaxCalls)
SpecSegments == InitOver(SegmentInputs) /\ [][Next]_vars

\* three parameters unified pairwise, then merged pairwise by the resolver
ParamInputs ==
    Inputs({P, Q, X}, {{ParamType(1)}}, {{Outlives(P)}}, {Outlives(Q)},
           MaxCalls + 1)
SpecParams == InitOver(ParamInputs) /\ [][NextMerge]_vars

\* paths merged by the resolver: without arguments, with one and with two
\* type arguments, with parenthesized arguments, global and not, of one and
\* of two segments, with lifetime arguments
Scoped(global, ty) ==
    Path(global, <<SegNone(1), SegAngle(4, <<ArgType(ty)>>)>>)
WithLifetime(global, lifetime, ty) ==
    Path(global, <<SegAngle(4, <<ArgLifetime(lifetime), ArgType(ty)>>)>>)
MergedPaths ==
    {Display, Clone, W(P), W(Q), W2(Q, X), FnOf(P),
     Path(TRUE, <<SegAngle(4, <<ArgType(Q)>>)>>),
     Scoped(FALSE, P), Scoped(TRUE, Q), WithLifetime(FALSE, 1, P),
     WithLifetime(TRUE, 2, Q)}

\* the pass with the merge of a pair of paths applied after the closure
NextPathMerge ==
    \/ Collecting
    \/ \E ord \in Orders(sets) : RelevantClosure(ord)
    \/ \E path1, path2 \in MergedPaths : MergePair(path1, path2)
PathMergeInputs ==
    Inputs({P, Display, W(P), W2(Q, X)},
           {{ParamType(1)}}, {{Outlives(P)}}, {Outlives(Q)}, MaxCalls)
SpecPathMerge == InitOver(PathMergeInputs) /\ [][NextPathMerge]_vars

\* parameters, paths over them and tuples of equal and of different
\* lengths, three parameters being relevant: the closure makes new sets
\* for those no call mentioned
StoreInputs ==
    Inputs({P, X, W(P), W(X), Tuple(<<Q, Pair>>), Tuple(<<X, Triple>>)},
           {{ParamType(1), ParamType(2), ParamType(3)}}, {{Outlives(P)}},
           {Outlives(Q)}, MaxCalls)
SpecStore == InitOver(StoreInputs) /\ [][Next]_vars

\* paths with a type and a lifetime argument, in both orders, beside paths
\* with two type arguments and with none
Lifetimed(ty, lifetime) ==
    Path(FALSE, <<SegAngle(4, <<ArgType(ty), ArgLifetime(lifetime)>>)>>)
ArgumentInputs ==
    Inputs({P, Display, Lifetimed(P, 1), Lifetimed(Q, 2), W2(Q, X),
            WithLifetime(FALSE, 1, P), WithLifetime(TRUE, 2, Q)},
           {{ParamType(1)}}, {{Outlives(P)}}, {Outlives(Q)}, MaxCalls)
SpecArguments == InitOver(ArgumentInputs) /\ [][Next]_vars

(***************************************************************************)
(* The properties checked.                                                 *)
(***************************************************************************)
Ended == pc \in {"done", "aborted"}

\* Scenario A: the implementation's parameter P with P: Display declared,
\* one call passing a P-typed value to a helper whose parameter T (here Q)
\* is declared with T: Clone
ScenarioA ==
    /\ params = {ParamType(1)}
    /\ calls = 1
    /\ unified = {{Q, P}}
    /\ constraints = {PDisplay, QClone}

\* C1: in scenario A the pass completes without a fatal error and returns
\* exactly {P: Display, P: Clone}
C1_ScenarioA ==
    (ScenarioA /\ Ended) =>
        /\ err = "none"
        /\ output = {PDisplay, ConstraintType(P, <<BoundTrait(Clone)>>)}

\* the types linked to those of S through chains of unified pairs
RECURSIVE Reach(_, _)
Reach(S, pairs) ==
    IF \A e \in pairs : e \cap S = {} \/ e \subseteq S THEN S
    ELSE Reach(S \cup UNION {e \in pairs : e \cap S # {}}, pairs)

\* C2: the equality recorded is transitive: types unified with each other
\* directly or through a chain look up to one and the same set
C2_TransitiveUnion ==
    err = "none" =>
        \A e \in unified : \A a \in e : \A c \in Reach({a}, unified) :
            /\ a \in DOMAIN set_map
            /\ c \in DOMAIN set_map
            /\ set_map[a] = set_map[c]

\* C3: as long as no call found its two operands in two different sets, the
\* equality sets are pairwise disjoint
C3_PairwiseDisjoint ==
    ~found_both =>
        \A i, j \in 1..Len(sets) : i # j => sets[i] \cap sets[j] = {}

RECURSIVE Unifiable(_, _)
\* the last segments of two paths unify without a fatal error
ArgumentsUnifiable(segment1, segment2) ==
    IF /\ segment1.tag = "AngleBracketed"
       /\ segment2.tag = "AngleBracketed"
       /\ Len(segment1.kids) = Len(segment2.kids)
    THEN \A i \in 1..Len(segment1.kids) :
             /\ segment1.kids[i].tag = "ArgType"
             /\ segment2.kids[i].tag = "ArgType"
             /\ Unifiable(segment1.kids[i].kids[1], segment2.kids[i].kids[1])
    ELSE segment1.tag # "Parenthesized" /\ segment2.tag # "Parenthesized"

\* two types unify without a fatal error, by their shapes (spec 4.2)
Unifiable(a, b) ==
    IF a.tag = "TraitObject" /\ b.tag = "TraitObject"
    THEN /\ Len(a.kids) = Len(b.kids)
         /\ \A i \in 1..Len(a.kids) :
                (a.kids[i].tag = "Trait" /\ b.kids[i].tag = "Trait") =>
                    ArgumentsUnifiable(LastSegment(a.kids[i].kids[1]),
                                       LastSegment(b.kids[i].kids[1]))
    ELSE IF a.tag = "TraitObject" \/ b.tag = "TraitObject" THEN TRUE
    ELSE IF a.tag = "Tuple" /\ b.tag = "Tuple"
    THEN /\ Len(a.kids) = Len(b.kids)
         /\ \A i \in 1..Len(a.kids) : Unifiable(a.kids[i], b.kids[i])
    ELSE IF /\ a.tag \in {"Reference", "ReferenceMut"}
            /\ b.tag \in {"Reference", "ReferenceMut"}
    THEN Unifiable(a.kids[1], b.kids[1])
    ELSE IF a.tag = "Path" /\ b.tag = "Path"
    THEN ArgumentsUnifiable(LastSegment(a), LastSegment(b))
    ELSE TRUE

\* what a completed unification of a with b leaves behind: a constraint for
\* a trait object, a common set for the pair, or for the pointees of a
\* reference and a mutable reference
RECURSIVE Unified(_, _)
Unified(a, b) ==
    IF a.tag = "TraitObject" /\ b.tag = "TraitObject" THEN TRUE
    ELSE IF a.tag = "TraitObject"
    THEN ConstraintType(b, a.kids) \in constraints
    ELSE IF b.tag = "TraitObject"
    THEN ConstraintType(a, b.kids) \in constraints
    ELSE IF ReachesLookup(a, b)
    THEN \E i \in 1..Len(sets) : a \in sets[i] /\ b \in sets[i]
    ELSE Unified(a.kids[1], b.kids[1])

\* C4: unifying two tuples raises ArityMismatch whenever their lengths
\* differ; with equal lengths it succeeds iff every pair of elements
\* unifies, and then every pair of elements has been unified; a pass that
\* raised ArityMismatch returns no constraint set
C4_TupleUnification ==
    /\ (last.op = "insert" /\ last.a.tag = "Tuple" /\ last.b.tag = "Tuple") =>
           IF Len(last.a.kids) # Len(last.b.kids)
           THEN err = "ArityMismatch"
           ELSE /\ err = "none" <=>
                       \A i \in 1..Len(last.a.kids) :
                           Unifiable(last.a.kids[i], last.b.kids[i])
                /\ err = "none" =>
                       \A i \in 1..Len(last.a.kids) :
                           Unified(last.a.kids[i], last.b.kids[i])
    /\ err = "ArityMismatch" => (pc = "aborted" /\ output = NoOutput)

\* Scenario E: a tuple of two elements unified against one of three
C4_Witness ==
    /\ last = [op |-> "insert", a |-> Pair, b |-> Triple]
    /\ err = "ArityMismatch"
    /\ pc = "aborted"
    /\ output = NoOutput

\* the step is a call of insert_as_equal_to by the pass
Called == calls' = calls + 1 /\ last'.op = "insert"

OneTraitObject(a, b) == (a.tag = "TraitObject") # (b.tag = "TraitObject")

\* C5: a call with exactly one trait-object operand adds the constraint
\* "other operand : the bounds" (no lifetimes) and leaves the store of
\* equality sets as it was
C5_TraitObjectConstraint ==
    [][(Called /\ OneTraitObject(last'.a, last'.b)) =>
           /\ set_map' = set_map
           /\ sets' = sets
           /\ err' = "none"
           /\ constraints' = constraints \cup
                  {IF last'.a.tag = "TraitObject"
                   THEN ConstraintType(last'.b, last'.a.kids)
                   ELSE ConstraintType(last'.a, last'.b.kids)}]_vars

\* Scenario D: P passed where dyn Iterator is expected
C5_Witness ==
    /\ last = [op |-> "insert", a |-> DynIterator, b |-> P]
    /\ ConstraintType(P, <<BoundTrait(Iterator)>>) \in constraints
    /\ P \notin DOMAIN set_map
    /\ sets # <<>>

RefAndRefMut(a, b) ==
    \/ a.tag = "Reference" /\ b.tag = "ReferenceMut"
    \/ a.tag = "ReferenceMut" /\ b.tag = "Reference"

\* ty is in the set_map m and in the sets ss exactly where it was in the
\* set_map m0 and the sets ss0
SameMembership(ty, m0, ss0, m, ss) ==
    /\ ty \in DOMAIN m <=> ty \in DOMAIN m0
    /\ \A i \in 1..Len(ss) : ty \in ss[i] => (i <= Len(ss0) /\ ty \in ss0[i])

\* C6: a call on a reference and a mutable reference, in either order, has
\* exactly the effect of the call on their pointees: the pointees, when
\* they are parameters, look up to the same set afterwards, and neither
\* reference becomes a member of a set
C6_ReferenceAgainstMutable ==
    [][(Called /\ RefAndRefMut(last'.a, last'.b)) =>
           /\ Store(set_map', sets', constraints', err', found_both') =
                  InsertAsEqualTo(TheStore, last'.a.kids[1], last'.b.kids[1])
           /\ (last'.a.kids[1].tag = "TypeParam"
                  /\ last'.b.kids[1].tag = "TypeParam") =>
                  /\ err' = "none"
                  /\ last'.a.kids[1] \in DOMAIN set_map'
                  /\ last'.b.kids[1] \in DOMAIN set_map'
                  /\ set_map'[last'.a.kids[1]] = set_map'[last'.b.kids[1]]
           /\ SameMembership(last'.a, set_map, sets, set_map', sets')
           /\ SameMembership(last'.b, set_map, sets, set_map', sets')]_vars

\* Scenario B: &P passed where &mut Q is expected
C6_Witness ==
    /\ last = [op |-> "insert", a |-> ReferenceMut(0, Q), b |-> Reference(0, P)]
    /\ P \in DOMAIN set_map
    /\ Q \in DOMAIN set_map
    /\ set_map[P] = set_map[Q]
    /\ Reference(0, P) \notin DOMAIN set_map
    /\ ReferenceMut(0, Q) \notin DOMAIN set_map

\* C7: once the same type F has been unified with W<P> in one call and with
\* W<Q> in another, P and Q look up to the same set
C7_ScenarioC ==
    \A F \in inputs.types :
        ({F, W(P)} \in unified /\ {F, W(Q)} \in unified) =>
            /\ P \in DOMAIN set_map
            /\ Q \in DOMAIN set_map
            /\ set_map[P] = set_map[Q]

\* C8: merging a type with itself completes without a fatal error and gives
\* the fully resolved form of the type
C8_MergeIdempotent ==
    (last.op = "pair" /\ last.a = last.b) =>
        /\ probe.err = "none"
        /\ probe.node = probe.resolved

\* the parameters nested inside Path, Tuple and Reference layers of a node
RECURSIVE ParamsInside(_)
ParamsInside(node) ==
    IF node.tag = "TypeParam" THEN {node}
    ELSE IF node.tag \in {"Tuple", "Reference", "ReferenceMut", "Path",
                          "AngleBracketed", "ArgType"}
    THEN UNION {ParamsInside(node.kids[i]) : i \in 1..Len(node.kids)}
    ELSE {}

\* C9: relevance is monotone: a resolved type that contains a relevant
\* parameter inside Path, Tuple or Reference layers is judged relevant
C9_RelevanceMonotone ==
    pc \in {"filter", "done"} =>
        \A ty \in DOMAIN set_map :
            (/\ set_map[ty] \in DOMAIN most_concrete_type_map
             /\ \E p \in ParamsInside(most_concrete_type_map[set_map[ty]]) :
                    /\ p \in DOMAIN set_map
                    /\ set_map[p] \in relevant) =>
                IsRelevant(most_concrete_type_map[set_map[ty]], TheStore,
                           relevant)

\* C10: filtering the returned constraint set again, against the same
\* store, memo and relevant sets, returns it unchanged
C10_FilterIdempotent ==
    pc = "done" =>
        \A cs \in Perms(output) :
            /\ FilterConstraints(cs, most_concrete_type_map, TheStore,
                                 relevant, order).err = "none"
            /\ FilterConstraints(cs, most_concrete_type_map, TheStore,
                                 relevant, order).set = output

\* resolve(set_ref) on the store as it is, with an empty memo, the hash sets
\* handing out their members in the order ord
Resolve(set_ref, ord) ==
    SetMakeMostConcrete(set_ref, <<>>,
                        Store(set_map, sets, constraints, "none", found_both),
                        ord)

\* C11: resolution is deterministic: on one store, resolve(set_ref) gives
\* the same outcome (representative or fatal error) whatever the order in
\* which the members of the sets are folded
C11_Deterministic ==
    \A set_ref \in 0..(Len(sets) - 1) : \A o1, o2 \in Orders(sets) :
        /\ Resolve(set_ref, o1).err = Resolve(set_ref, o2).err
        /\ Resolve(set_ref, o1).node = Resolve(set_ref, o2).node

\* C12: in a store built by calls that all completed, resolving a set never
\* meets an incompatible pair, whatever the order of the fold
C12_NoInconsistency ==
    err = "none" =>
        \A set_ref \in 0..(Len(sets) - 1) : \A ord \in Orders(sets) :
            Resolve(set_ref, ord).err # "InternalInconsistency"

\* the set refs of the parameters inside the memo's values for the sets of
\* the relevant parameters ps, in the store (m, ss)
RefsOfMemo(ps, memo, m, ss) ==
    UNION {InnerParamSetRefs(memo[m[TypeParam(p.id)]],
                             Refs(Store(m, ss, {}, "none", FALSE), {})).refs :
           p \in ps}

\* C13: resolve(set_ref) terminates on every store, a member that leads
\* back to a set whose resolution is in progress finding the placeholder;
\* the value a completed resolve returned is the one the memo holds, and
\* every later resolve of that set in the pass returns it from the memo
C13_TerminatesAndMemoizes ==
    [][/\ \A set_ref \in 0..(Len(sets') - 1) : \A ord \in Orders(sets') :
              SetMakeMostConcrete(
                  set_ref, <<>>,
                  Store(set_map', sets', constraints', "none", found_both'),
                  ord).err
                  \in {"none", "InternalInconsistency", "UnsupportedConstruct"}
       /\ (last'.op = "closure" /\ err' = "none") =>
              relevant' = RefsOfMemo(params', most_concrete_type_map',
                                     set_map', sets')
       /\ \A set_ref \in DOMAIN most_concrete_type_map :
              /\ set_ref \in DOMAIN most_concrete_type_map'
              /\ most_concrete_type_map'[set_ref] =
                     most_concrete_type_map[set_ref]
       /\ \A set_ref \in DOMAIN most_concrete_type_map' :
              SetMakeMostConcrete(
                  set_ref, most_concrete_type_map',
                  Store(set_map', sets', constraints', "none", found_both'),
                  order')
                  = Res(most_concrete_type_map'[set_ref],
                        most_concrete_type_map', "none")]_vars

\* P's set holds W<P>, which looks up to that same set: the closure resolved
\* it and the filter resolved it again for the constraint on P
C13_Witness ==
    /\ pc = "done"
    /\ Outlives(P) \in constraints
    /\ P \in DOMAIN set_map
    /\ W(P) \in DOMAIN set_map
    /\ set_map[W(P)] = set_map[P]
    /\ W(P) \in sets[set_map[P] + 1]
    /\ set_map[P] \in DOMAIN most_concrete_type_map

\* relevance as the rule of the filter words it: a parameter whose set is
\* in the relevant collection, or a reference to a relevant type
RECURSIVE Relevant(_)
Relevant(ty) ==
    \/ /\ ty.tag = "TypeParam"
       /\ ty \in DOMAIN set_map
       /\ set_map[ty] \in relevant
    \/ /\ ty.tag \in {"Reference", "ReferenceMut"}
       /\ Relevant(ty.kids[1])

\* the type that ty resolves to after the closure
Resolved(ty) ==
    TypeMakeMostConcrete(ty, most_concrete_type_map, TheStore, order).node

\* C14: the filter keeps a constraint, rewritten to its resolved bounded
\* type, iff that type is a parameter whose set is relevant or a reference
\* to a relevant type; every other shape, and a parameter in no set, is
\* judged not relevant
C14_RelevantShapes ==
    (pc \in {"filter", "done"} /\ err = "none") =>
        /\ \A c \in constraints :
               /\ IsRelevant(Resolved(c.bounded_ty), TheStore, relevant)
                      <=> Relevant(Resolved(c.bounded_ty))
               /\ Resolved(c.bounded_ty).tag
                      \notin {"TypeParam", "Reference", "ReferenceMut"} =>
                      ~IsRelevant(Resolved(c.bounded_ty), TheStore, relevant)
               /\ c \notin pending =>
                      (Outlives(Resolved(c.bounded_ty)) \in kept
                           <=> Relevant(Resolved(c.bounded_ty)))
        /\ \A id \in 1..4 :
               TypeParam(id) \notin DOMAIN set_map =>
                   ~IsRelevant(TypeParam(id), TheStore, relevant)

\* the filter has kept the constraints on P and on &mut &P and dropped those
\* on the tuple and on the parameter in no set
C14_Witness ==
    /\ pc = "done"
    /\ Outlives(Pair) \in constraints
    /\ Outlives(Reference(0, X)) \in constraints
    /\ X \notin DOMAIN set_map
    /\ Outlives(ReferenceMut(0, Reference(1, P))) \in output
    /\ Outlives(Pair) \notin output
    /\ Outlives(Reference(0, X)) \notin output

\* every type-valued argument of the segment is relevant
SegmentRelevant(segment) ==
    \A i \in 1..Len(segment.kids) :
        segment.kids[i].tag = "ArgType" => Relevant(segment.kids[i].kids[1])

NoParenthesized(path) ==
    \A i \in 1..Len(path.kids) : path.kids[i].tag # "Parenthesized"

\* C15 as stated: a path is judged relevant iff every type-valued argument
\* of its final segment is relevant; the arguments of the other segments do
\* not count
C15_FinalSegmentOnly ==
    (last.op = "judge" /\ NoParenthesized(last.a)) =>
        /\ probe.err = "none"
        /\ probe.judged <=> SegmentRelevant(LastSegment(last.a))

\* C15 amended: a path without parenthesized arguments is judged relevant
\* iff every type-valued argument of every one of its segments is relevant,
\* lifetime arguments always counting as relevant
C15_EverySegment ==
    (last.op = "judge" /\ NoParenthesized(last.a)) =>
        /\ probe.err = "none"
        /\ probe.judged <=>
               \A i \in 1..Len(last.a.kids) : SegmentRelevant(last.a.kids[i])

\* a path whose final segment carries the relevant P and whose first
\* segment carries Q, which is not relevant, is judged not relevant
C15_Witness ==
    /\ last = [op |-> "judge", a |-> Nested(Q, P), b |-> Infer]
    /\ Relevant(P)
    /\ ~Relevant(Q)
    /\ probe.err = "none"
    /\ ~probe.judged

\* the step is a completed call whose operands reach the set lookup
Looked ==
    /\ Called
    /\ ReachesLookup(last'.a, last'.b)
    /\ err' = "none"

\* the sets created by the step
NewSetRefs == Len(sets)..(Len(sets') - 1)

\* known is added to by other: other joins the set that known looked up to,
\* whose earlier members are kept, and no set created by the step holds
\* the pair
JoinsSetOf(known, other) ==
    /\ other \in sets'[set_map[known] + 1]
    /\ set_map'[other] = set_map[known]
    /\ sets[set_map[known] + 1] \subseteq sets'[set_map[known] + 1]
    /\ \A set_ref \in NewSetRefs :
           ~({known, other} \subseteq sets'[set_ref + 1])

\* C16: a call whose operands reach the set lookup: with neither operand
\* known, one new set holding exactly the two operands is created and both
\* look up to it; with exactly one known, the other joins that operand's
\* set and looks up to it, the set's earlier members are kept and no new
\* set is created for the pair
C16_NeitherOrOneKnown ==
    [][Looked =>
           /\ (last'.a \notin DOMAIN set_map /\ last'.b \notin DOMAIN set_map)
                  => /\ Len(sets') > Len(sets)
                     /\ sets'[Len(sets')] = {last'.a, last'.b}
                     /\ set_map'[last'.a] = Len(sets') - 1
                     /\ set_map'[last'.b] = Len(sets') - 1
                     /\ \A set_ref \in NewSetRefs :
                            {last'.a, last'.b} \subseteq sets'[set_ref + 1]
                                => set_ref = Len(sets') - 1
           /\ (last'.a \in DOMAIN set_map /\ last'.b \notin DOMAIN set_map)
                  => JoinsSetOf(last'.a, last'.b)
           /\ (last'.a \notin DOMAIN set_map /\ last'.b \in DOMAIN set_map)
                  => JoinsSetOf(last'.b, last'.a)]_vars

\* &P was known from the first call, the second call insert(&&P, &P) made
\* &&P join its set: the inner call insert(&P, P) came in between
C16_Witness ==
    /\ calls = 2
    /\ last = [op |-> "insert", a |-> Reference(0, Reference(0, P)),
               b |-> Reference(0, P)]
    /\ err = "none"
    /\ Len(sets) = 1
    /\ sets[1] = {Q, P, Reference(0, P), Reference(0, Reference(0, P))}
    /\ set_map[Reference(0, Reference(0, P))] = 0

\* the strict subterms of a type: the operands of the inner calls
RECURSIVE Inside(_)
Inside(node) ==
    UNION {{node.kids[i]} \cup Inside(node.kids[i]) :
           i \in 1..Len(node.kids)}

\* C17: a call whose operands are known and look up to two different sets
\* adds the second operand to the first one's set and repoints it there,
\* without a union: the second operand stays a member of its former set
\* and, apart from the types inside the operands, every other member of
\* that former set keeps its lookup entry and its membership
C17_NoFullUnion ==
    [][(/\ Looked
        /\ last'.a \in DOMAIN set_map
        /\ last'.b \in DOMAIN set_map
        /\ set_map[last'.a] # set_map[last'.b]) =>
           /\ last'.b \in sets'[set_map[last'.a] + 1]
           /\ set_map'[last'.b] = set_map[last'.a]
           /\ last'.b \in sets[set_map[last'.b] + 1]
                  => last'.b \in sets'[set_map[last'.b] + 1]
           /\ \A ty \in sets[set_map[last'.b] + 1] \ {last'.b} :
                  ty \notin (Inside(last'.a) \cup Inside(last'.b)) =>
                      /\ ty \in sets'[set_map[last'.b] + 1]
                      /\ set_map'[ty] = set_map[ty]
           /\ Len(sets') >= Len(sets)]_vars

\* insert(P, Q); insert(X, Y); insert(P, X): X joined P's set and stays in
\* its former set, where Y still looks up
C17_Witness ==
    /\ calls = 3
    /\ last = [op |-> "insert", a |-> P, b |-> X]
    /\ sets = <<{P, Q, X}, {X, Y}>>
    /\ set_map[X] = 0
    /\ set_map[Y] = 1

\* the store after the final-segment arguments of the paths of the trait
\* bounds at the positions from i on have been unified, the positions with
\* a lifetime bound on either side being skipped
RECURSIVE BoundPathsUnified(_, _, _, _)
BoundPathsUnified(st, bounds1, bounds2, i) ==
    IF i > Len(bounds1) \/ st.err # "none" THEN st
    ELSE BoundPathsUnified(
             IF bounds1[i].tag = "Trait" /\ bounds2[i].tag = "Trait"
             THEN InsertPathArgumentsAsEqualTo(st, bounds1[i].kids[1],
                                               bounds2[i].kids[1])
             ELSE st,
             bounds1, bounds2, i + 1)

\* the single type argument of the trait of a bound, where it has one
HasArgument(bound) ==
    /\ bound.tag = "Trait"
    /\ LastSegment(bound.kids[1]).tag = "AngleBracketed"
    /\ Len(LastSegment(bound.kids[1]).kids) = 1
    /\ LastSegment(bound.kids[1]).kids[1].tag = "ArgType"
Argument(bound) == LastSegment(bound.kids[1]).kids[1].kids[1]

\* C18: a call on two trait objects never makes either a member of a set
\* and never emits a constraint for them; with different numbers of bounds
\* it raises ArityMismatch; with equal numbers it only unifies, position by
\* position, the final-segment arguments of the paths of two trait bounds,
\* a position with a lifetime bound on either side being skipped
C18_TraitObjectPair ==
    [][(/\ Called
        /\ last'.a.tag = "TraitObject"
        /\ last'.b.tag = "TraitObject") =>
           /\ \A ty \in {last'.a, last'.b} :
                  /\ ty \notin DOMAIN set_map'
                  /\ \A i \in 1..Len(sets') : ty \notin sets'[i]
           /\ \A c \in constraints' \ constraints :
                  /\ c.bounded_ty \notin {last'.a, last'.b}
                  /\ c.bounds \notin {last'.a.kids, last'.b.kids}
           /\ IF Len(last'.a.kids) # Len(last'.b.kids)
              THEN /\ err' = "ArityMismatch"
                   /\ <<set_map', sets', constraints'>>
                          = <<set_map, sets, constraints>>
              ELSE /\ Store(set_map', sets', constraints', err', found_both')
                          = BoundPathsUnified(TheStore, last'.a.kids,
                                              last'.b.kids, 1)
                   /\ \A i \in 1..Len(last'.a.kids) :
                          IF HasArgument(last'.a.kids[i])
                             /\ HasArgument(last'.b.kids[i])
                          THEN \E j \in 1..Len(sets') :
                                   {Argument(last'.a.kids[i]),
                                    Argument(last'.b.kids[i])}
                                       \subseteq sets'[j]
                          ELSE TRUE
                   /\ (\A i \in 1..Len(last'.a.kids) :
                           ~(HasArgument(last'.a.kids[i])
                                 /\ HasArgument(last'.b.kids[i]))) =>
                          <<set_map', sets', constraints', err'>>
                              = <<set_map, sets, constraints, err>>]_vars

\* dyn W<P> against dyn W<Q> unified P with Q; neither trait object is
\* known to the store and no constraint was emitted
C18_Witness ==
    /\ calls = 2
    /\ last = [op |-> "insert", a |-> Dyn(<<BoundTrait(W(P))>>),
               b |-> Dyn(<<BoundTrait(W(Q))>>)]
    /\ sets = <<{P, Q}>>
    /\ DOMAIN set_map = {P, Q}
    /\ constraints \subseteq {Outlives(P), Outlives(Q)}

\* the final segments carry angle-bracketed arguments of different lengths,
\* or one carries angle-bracketed arguments and the other none
ArityDiffers(segment1, segment2) ==
    \/ /\ segment1.tag = "AngleBracketed"
       /\ segment2.tag = "AngleBracketed"
       /\ Len(segment1.kids) # Len(segment2.kids)
    \/ segment1.tag = "AngleBracketed" /\ segment2.tag = "None"
    \/ segment1.tag = "None" /\ segment2.tag = "AngleBracketed"

\* C19: unifying two paths whose final segments differ in the number of
\* angle-bracketed arguments, or of which one has such arguments and the
\* other none, raises no error and unifies none of the arguments: the two
\* paths become members of one set and nothing else changes in the store
C19_PathArityNoOp ==
    [][(/\ Called
        /\ last'.a.tag = "Path"
        /\ last'.b.tag = "Path"
        /\ ArityDiffers(LastSegment(last'.a), LastSegment(last'.b))) =>
           /\ err' = "none"
           /\ constraints' = constraints
           /\ \E i \in 1..Len(sets') : {last'.a, last'.b} \subseteq sets'[i]
           /\ set_map'[last'.a] = set_map'[last'.b]
           /\ DOMAIN set_map' = DOMAIN set_map \cup {last'.a, last'.b}
           /\ \A ty \in DOMAIN set_map \ {last'.a, last'.b} :
                  set_map'[ty] = set_map[ty]
           /\ \A i \in 1..Len(sets) :
                  /\ sets[i] \subseteq sets'[i]
                  /\ sets'[i] \ sets[i] \subseteq {last'.a, last'.b}
           /\ \A i \in (Len(sets) + 1)..Len(sets') :
                  sets'[i] = {last'.a, last'.b}
           /\ Len(sets') <= Len(sets) + 1]_vars

\* W<P> against W2<Q, X> after W<P> against Display: one set holds the
\* three paths, and P, Q and X are unknown to the store
C19_Witness ==
    /\ calls = 2
    /\ last = [op |-> "insert", a |-> W(P), b |-> W2(Q, X)]
    /\ err = "none"
    /\ sets = <<{Display, W(P), W2(Q, X)}>>
    /\ DOMAIN set_map = {Display, W(P), W2(Q, X)}

\* C20: unifying two paths of which either final segment carries
\* parenthesized arguments raises UnsupportedConstruct, whatever the
\* other's arguments are, and neither path has been added to a set
C20_ParenthesizedUnsupported ==
    [][(/\ Called
        /\ last'.a.tag = "Path"
        /\ last'.b.tag = "Path"
        /\ \/ LastSegment(last'.a).tag = "Parenthesized"
           \/ LastSegment(last'.b).tag = "Parenthesized") =>
           /\ err' = "UnsupportedConstruct"
           /\ pc' = "aborted"
           /\ set_map' = set_map
           /\ sets' = sets
           /\ constraints' = constraints]_vars

\* W<P> against a path with parenthesized arguments, the second operand:
\* the call panicked and the store is as the first call left it
C20_Witness ==
    /\ calls = 2
    /\ last = [op |-> "insert", a |-> W(P), b |-> FnOf(P)]
    /\ err = "UnsupportedConstruct"
    /\ sets = <<{Display, W(P)}>>
    /\ FnOf(P) \notin DOMAIN set_map

\* the members of a set that are paths, and whether a set holds exactly one
\* path beside one or more parameters and nothing else
PathsOf(S) == {ty \in S : ty.tag = "Path"}
OnePathAmongParams(S) ==
    /\ Cardinality(PathsOf(S)) = 1
    /\ S \ PathsOf(S) # {}
    /\ \A ty \in S \ PathsOf(S) : ty.tag = "TypeParam"

\* C21: a set built by insert_as_equal_to whose members are one path and
\* one or more parameters resolves, whatever the order of the fold, without
\* a fatal error to a path with the name of its path member, never to the
\* Infer placeholder
C21_PathRepresentative ==
    \A set_ref \in 0..(Len(sets) - 1) :
        OnePathAmongParams(sets[set_ref + 1]) =>
            \A ord \in Orders(sets) : \A path \in PathsOf(sets[set_ref + 1]) :
                /\ Resolve(set_ref, ord).err = "none"
                /\ Resolve(set_ref, ord).node # Infer
                /\ Resolve(set_ref, ord).node.tag = "Path"
                /\ LastSegment(Resolve(set_ref, ord).node).n
                       = LastSegment(path).n

\* the member of a set of parameters with the smallest id
SmallestId(S) == CHOOSE ty \in S : \A other \in S : ty.n <= other.n

\* C22: the merge of two parameters returns the one with the smaller id in
\* either order of the operands, and a set that holds only parameters
\* resolves to its member with the smallest id whatever the first member
\* and the order of the fold
C22_SmallestIdWins ==
    /\ (last.op = "pair" /\ last.a.tag = "TypeParam"
                         /\ last.b.tag = "TypeParam") =>
           /\ probe.err = "none"
           /\ probe.node = SmallestId({last.a, last.b})
    /\ \A set_ref \in 0..(Len(sets) - 1) :
           (\A ty \in sets[set_ref + 1] : ty.tag = "TypeParam") =>
               \A ord \in Orders(sets) :
                   /\ Resolve(set_ref, ord).err = "none"
                   /\ Resolve(set_ref, ord).node
                          = SmallestId(sets[set_ref + 1])

\* X merged with P, the smaller id as second operand, in a store where one
\* set holds the three parameters
C22_Witness ==
    /\ last = [op |-> "pair", a |-> X, b |-> P]
    /\ probe.node = P
    /\ \E i \in 1..Len(sets) : sets[i] = {P, Q, X}

\* a step that merges two paths
PathsMerged ==
    /\ last'.op = "pair"
    /\ last'.a.tag = "Path"
    /\ last'.b.tag = "Path"

\* of two paths, the one whose last segment has fewer arguments
FewerArguments(path1, path2) ==
    IF Len(LastSegment(path1).kids) < Len(LastSegment(path2).kids)
    THEN path1 ELSE path2

\* both last segments carry angle-bracketed arguments
BothAngleBracketed(path1, path2) ==
    /\ LastSegment(path1).tag = "AngleBracketed"
    /\ LastSegment(path2).tag = "AngleBracketed"

\* C23: the merge of two paths of which one has no arguments on its last
\* segment returns a path without arguments among the two, unchanged,
\* whatever the arguments of the other; the merge of two paths with
\* angle-bracketed argument lists of different lengths returns the resolved
\* form of the one with fewer arguments, in both orders of the operands
C23_FewerArgumentsWin ==
    [][PathsMerged =>
        /\ (\/ LastSegment(last'.a).tag = "None"
            \/ LastSegment(last'.b).tag = "None") =>
               /\ probe'.err = "none"
               /\ probe'.node \in {last'.a, last'.b}
               /\ LastSegment(probe'.node).tag = "None"
        /\ (/\ BothAngleBracketed(last'.a, last'.b)
            /\ Len(LastSegment(last'.a).kids)
                   # Len(LastSegment(last'.b).kids)) =>
               /\ probe'.err = "none"
               /\ probe'.node =
                      TypeMakeMostConcrete(FewerArguments(last'.a, last'.b),
                                           most_concrete_type_map, TheStore,
                                           order).node
               /\ MakeMostConcreteFromPair(last'.a, last'.b,
                                           most_concrete_type_map, TheStore,
                                           order)
                      = MakeMostConcreteFromPair(last'.b, last'.a,
                                                 most_concrete_type_map,
                                                 TheStore, order)]_vars

\* W2<Q, X> merged with W<P>, the second operand having fewer arguments, in
\* a store where W<P> is in one set with Display and resolves to it
C23_Witness ==
    /\ last = [op |-> "pair", a |-> W2(Q, X), b |-> W(P)]
    /\ W(P) \in DOMAIN set_map
    /\ sets[set_map[W(P)] + 1] = {W(P), Display}
    /\ probe.err = "none"
    /\ probe.node = Display

\* a path without the arguments of its last segment
Skeleton(path) == WithLastArgs(path, <<>>)

\* the paths the merged arguments may be written onto: the global one when
\* exactly one is global, else the one with fewer segments
WrittenOnto(path1, path2) ==
    IF path1.n = 1 /\ path2.n # 1 THEN {path1}
    ELSE IF path2.n = 1 /\ path1.n # 1 THEN {path2}
    ELSE IF Len(path1.kids) < Len(path2.kids) THEN {path1}
    ELSE IF Len(path2.kids) < Len(path1.kids) THEN {path2}
    ELSE {path1, path2}

\* C24: the merge of two paths with angle-bracketed argument lists of equal
\* length, when it completes, returns the global path when exactly one of
\* the two is global, in either position, and else the path with fewer
\* segments, with the merged arguments in place of its own, the lifetime
\* arguments being those of the first operand
C24_WrittenOntoGlobalOrShorter ==
    (/\ last.op = "pair"
     /\ last.a.tag = "Path"
     /\ last.b.tag = "Path"
     /\ BothAngleBracketed(last.a, last.b)
     /\ Len(LastSegment(last.a).kids) = Len(LastSegment(last.b).kids)
     /\ probe.err = "none") =>
        /\ probe.node.tag = "Path"
        /\ Skeleton(probe.node)
               \in {Skeleton(path) : path \in WrittenOnto(last.a, last.b)}
        /\ Len(LastSegment(probe.node).kids) = Len(LastSegment(last.a).kids)
        /\ \A i \in 1..Len(LastSegment(last.a).kids) :
               LastSegment(last.a).kids[i].tag = "ArgLifetime" =>
                   LastSegment(probe.node).kids[i]
                       = LastSegment(last.a).kids[i]

\* the lookup m and the sets ss agree: every key is a member of the set it
\* maps to, which exists, and every member of a set is a key
StoreConsistent(m, ss) ==
    /\ \A ty \in DOMAIN m :
           /\ m[ty] \in 0..(Len(ss) - 1)
           /\ ty \in ss[m[ty] + 1]
    /\ \A i \in 1..Len(ss) : ss[i] \subseteq DOMAIN m

\* C25: after every step of the pass, insert_as_equal_to and new_set
\* included, every key of set_map is a member of the set it maps to, every
\* member of a set is a key, every entry names an existing set, no set has
\* lost a member and no set ref has been removed or renumbered
C25_StoreConsistency ==
    [][/\ StoreConsistent(set_map', sets')
       /\ Len(sets') >= Len(sets)
       /\ \A i \in 1..Len(sets) : sets[i] \subseteq sets'[i]]_vars

\* W<P> against W<X>, then P against W<P>, which was in another set and
\* stays a member of it, then the closure, which made a new set for Q
C25_Witness ==
    /\ last.op = "closure"
    /\ err = "none"
    /\ sets = <<{P, X, W(P)}, {W(P), W(X)}, {Q}>>
    /\ set_map[W(P)] = 0
    /\ set_map[Q] = 2

\* position i of two argument lists pairs two type arguments
TypePair(args1, args2, i) ==
    args1[i].tag = "ArgType" /\ args2[i].tag = "ArgType"

\* the first position of two argument lists of equal length that pairs
\* anything other than two type arguments; 0 when there is none
FirstOther(args1, args2) ==
    IF \A i \in 1..Len(args1) : TypePair(args1, args2, i) THEN 0
    ELSE CHOOSE i \in 1..Len(args1) :
             /\ ~TypePair(args1, args2, i)
             /\ \A j \in 1..(i - 1) : TypePair(args1, args2, j)

\* the positions before the first that pairs anything other than two types
Before(path1, path2) ==
    1..(FirstOther(LastSegment(path1).kids, LastSegment(path2).kids) - 1)

\* the type argument at position j of the last segment of a path
TypeArgument(path, j) == LastSegment(path).kids[j].kids[1]

\* C26: unifying two paths whose last segments have angle-bracketed
\* argument lists of equal length raises UnsupportedConstruct at the first
\* position that pairs anything other than two type arguments, two
\* lifetimes included; the pairs of type arguments before that position,
\* when they unify without an error of their own, have been unified by
\* then, and neither path has been added to a set
C26_NonTypeArgumentPair ==
    [][(/\ Called
        /\ last'.a.tag = "Path"
        /\ last'.b.tag = "Path"
        /\ BothAngleBracketed(last'.a, last'.b)
        /\ Len(LastSegment(last'.a).kids) = Len(LastSegment(last'.b).kids)
        /\ FirstOther(LastSegment(last'.a).kids,
                      LastSegment(last'.b).kids) # 0
        /\ \A j \in Before(last'.a, last'.b) :
               Unifiable(TypeArgument(last'.a, j),
                         TypeArgument(last'.b, j))) =>
           /\ err' = "UnsupportedConstruct"
           /\ pc' = "aborted"
           /\ (\A j \in Before(last.a, last.b) :
                   Unified(TypeArgument(last.a, j), TypeArgument(last.b, j)))'
           /\ SameMembership(last'.a, set_map, sets, set_map', sets')
           /\ SameMembership(last'.b, set_map, sets, set_map', sets')]_vars

\* <P, 'a> against <Q, 'b> after <P, 'a> against Display: P and Q share a
\* new set, the call panicked at the pair of lifetimes, the first path is
\* where it was and the second is unknown to the store
C26_Witness ==
    /\ last = [op |-> "insert", a |-> Lifetimed(P, 1), b |-> Lifetimed(Q, 2)]
    /\ err = "UnsupportedConstruct"
    /\ sets = <<{Lifetimed(P, 1), Display}, {P, Q}>>
    /\ Lifetimed(Q, 2) \notin DOMAIN set_map

====
